---- MODULE Spec2Model ----
(***************************************************************************)
(* A model of nango, a host-side client that speaks a textual RPC protocol *)
(* to firmware over a serial link (src/firmware.go).                       *)
(*                                                                         *)
(* Bytes are ASCII codes, texts are sequences of bytes.  A Go value of     *)
(* type interface{} is a record [t |-> dynamic type, v |-> payload].       *)
(* An error is a record [k |-> kind, a |-> what it names].                 *)
(*                                                                         *)
(* Three specifications share the variables:                               *)
(*   Spec       concurrent call() invocations on connection "p1", its      *)
(*              owner opening and closing it, the firmware, the clock;     *)
(*   SpecConn   one user driving the transport methods directly;           *)
(*   SpecCodec  the flattening and the encoding applied to drawn inputs.   *)
(*                                                                         *)
(* Assumptions about code that is not in src/:                             *)
(*   - serial.OpenPort returns a nil port together with its error;         *)
(*   - Port.Flush discards the unread input; a closed or failed port       *)
(*     fails every write, flush, read and close;                           *)
(*   - bufio.Writer keeps the bytes written until Flush (a record is       *)
(*     shorter than its 4096-byte buffer) and keeps a failure for good;    *)
(*   - bufio.Scanner reads whatever the port has and yields the bytes      *)
(*     before the first newline, a trailing carriage return dropped.       *)
(* Open assigns s.port and s.readWriter without synchronisation, so the    *)
(* owner opens a connection only while no operation on it is in progress   *)
(* and only when it is not open.                                           *)
(***************************************************************************)
EXTENDS Integers, Sequences, FiniteSets, TLC

(* ------------------------------ bounds -------------------------------- *)
\* call() invocations of Spec
NCalls == 2
\* Open/Close operations of the owner in Spec
MaxLife == 2
\* transport operations of the user in SpecConn
MaxOps == 4
\* arguments of a list drawn in SpecCodec
MaxArgs == 2
\* operations on the I2C object in SpecI2C
MaxI2C == 2
\* addresses I2CMaster.Scan probes in SpecI2C (the code probes 128)
MaxAddr == 1

(* ------------------------- program constants -------------------------- *)
\* "\000", the field terminator appended by write
NUL == 0
\* ReadTimeout of NewFirmwareConnection, in seconds (one Tick is a second)
ReadTimeout == 2

NL == 10
CR == 13

(* ------------------------------ values -------------------------------- *)
GoString(s) == [t |-> "string", v |-> s]
GoInt(n) == [t |-> "int", v |-> n]
GoBool(b) == [t |-> "bool", v |-> b]
GoByte(n) == [t |-> "uint8", v |-> n]
GoList(l) == [t |-> "[]interface {}", v |-> l]
GoNil == [t |-> "<nil>", v |-> 0]

IsNil(x) == x.t = "<nil>"
IsList(x) == x.t = "[]interface {}"

\* texts used by the model: "A", "dw", "r", "13", "1", "ok", "0", the method names of
\* the facades, "True", "False"
TxtA == <<65>>
TxtDw == <<100, 119>>
TxtR == <<114>>
Txt13 == <<49, 51>>
Txt1 == <<49>>
TxtOk == <<111, 107>>
Txt0 == <<48>>
TxtAw == <<97, 119>>
TxtPm == <<112, 109>>
TxtM == <<109>>
TxtPi == <<112, 105>>
TxtS == <<115>>
TxtWire == <<87, 105, 114, 101>>
TxtBegin == <<98, 101, 103, 105, 110>>
TxtRequestFrom == <<114, 101, 113, 117, 101, 115, 116, 70, 114, 111, 109>>
TxtBeginTransmission == <<98, 101, 103, 105, 110, 84, 114, 97, 110, 115, 109, 105, 115, 115, 105, 111, 110>>
TxtEndTransmission == <<101, 110, 100, 84, 114, 97, 110, 115, 109, 105, 115, 115, 105, 111, 110>>
TxtWrite == <<119, 114, 105, 116, 101>>
TxtAvailable == <<97, 118, 97, 105, 108, 97, 98, 108, 101>>
TxtRead == <<114, 101, 97, 100>>
TxtTrue == <<84, 114, 117, 101>>
TxtFalse == <<70, 97, 108, 115, 101>>

(* ------------------------------ errors -------------------------------- *)
NoErr == [k |-> "nil", a |-> ""]
TransportErr == [k |-> "TransportError", a |-> ""]
UnsupportedErr(x) == [k |-> "UnsupportedType", a |-> x.t]
TimeoutErr(c) == [k |-> "Timeout", a |-> c]
ScanErr(c) == [k |-> "ScanError", a |-> c]

\* the *strconv.NumError of Atoi and ParseFloat
SyntaxErr == [k |-> "SyntaxError", a |-> ""]
\* i2cCommunicationError(c) and its String()
i2cCommunicationError(c) ==
    [k |-> "i2cCommunicationError",
     a |-> CASE c = 1 -> "data too long to fit in transmit buffer"
             [] c = 2 -> "received NACK on transmit of address"
             [] c = 3 -> "received NACK on transmit of data"
             [] c = 4 -> "other error"
             [] OTHER -> "index out of range"]

\* errors.New("port is not opened: must call Open() first")
portClosed == [k |-> "PortClosed", a |-> ""]

(* ------------------------------- codec -------------------------------- *)
RECURSIVE Digits(_)
Digits(n) == IF n < 10 THEN <<48 + n>> ELSE Append(Digits(n \div 10), 48 + (n % 10))

\* strconv.Itoa
Itoa(n) == IF n < 0 THEN <<45>> \o Digits(0 - n) ELSE Digits(n)

\* the cases of write's type switch
Encodable(x) == x.t \in {"string", "int", "bool"}

EncodeLowerBool(x) ==
    CASE x.t = "string" -> x.v
      [] x.t = "int" -> Itoa(x.v)
      [] x.t = "bool" -> IF x.v THEN <<116, 114, 117, 101>> ELSE <<102, 97, 108, 115, 101>>
      [] OTHER -> <<>>

\* the text s that write builds for an encodable value
Encode(x) ==
    CASE x.t = "string" -> x.v
      [] x.t = "int" -> Itoa(x.v)
      [] x.t = "bool" -> IF x.v THEN TxtTrue ELSE TxtFalse
      [] OTHER -> <<>>

RECURSIVE FlattenKeepNil(_)
FlattenKeepNil(args) ==
    IF args = <<>> THEN [toprint |-> <<>>, nel |-> 0]
    ELSE LET arg == Head(args)
             rest == FlattenKeepNil(Tail(args))
             els == IF IsList(arg) THEN arg.v
                    ELSE IF ~IsNil(arg) THEN <<arg>> ELSE <<>>
         IN  [toprint |-> els \o rest.toprint, nel |-> Len(els) + rest.nel]

\* the loop of call over args: toprint and nel
RECURSIVE Flatten(_)
Flatten(args) ==
    IF args = <<>> THEN [toprint |-> <<>>, nel |-> 0]
    ELSE LET arg == Head(args)
             rest == Flatten(Tail(args))
             els == IF IsList(arg) THEN SelectSeq(arg.v, LAMBDA el : ~IsNil(el))
                    ELSE IF ~IsNil(arg) THEN <<arg>> ELSE <<>>
         IN  [toprint |-> els \o rest.toprint, nel |-> Len(els) + rest.nel]

CountFieldNoOffset(args) == GoInt(Flatten(args).nel)

\* the count field of call: nel - 1
CountField(args) == GoInt(Flatten(args).nel - 1)


(* ------------------------------- state -------------------------------- *)
VARIABLES
    port,       \* s.port of each connection: "nil", "open", or "closed" (a handle whose Close was called)
    dev,        \* the device behind the port: "up" or "down"
    gen,        \* successful Opens so far: the reader and writer in use
    wbuf,       \* bytes held by s.readWriter's writer
    werr,       \* whether that writer has failed
    tx,         \* bytes delivered to the device, in order
    rx,         \* bytes the device has sent that nothing has read
    owed,       \* flushes the firmware has not answered
    lines,      \* reply lines the firmware has sent
    fresh,      \* opened and not used since
    everOpened, \* some Open has opened the port
    mutex,      \* holder of the process-wide lock, 0 when free
    th,         \* each thread: the call() invocations and the user of the connection;
                \* due counts the replies owed up to the one to its own request, inrx
                \* says that reply was sent while it could still wait for it and nothing
                \* has read it yet, stolen that another ReadLine's scan has read it
    scans,      \* the goroutines started by ReadLine
    log,        \* the steps taken on the connections, in order
    cx          \* the codec run of SpecCodec

connVars == <<port, dev, gen, wbuf, werr, tx, rx, owed, lines, fresh, everOpened>>
vars == <<port, dev, gen, wbuf, werr, tx, rx, owed, lines, fresh, everOpened, mutex, th, scans, log, cx>>

Conns == {"p1", "p2"}
Calls == 1 .. NCalls
User == 0
Threads == Calls \cup {User}

MutexFreeAlways == TRUE

\* var mutex = new(sync.Mutex): one lock for the process
MutexFree == mutex = 0

\* NewFirmwareConnection: port nil
ConnInit ==
    /\ port = [c \in Conns |-> "nil"]
    /\ dev = [c \in Conns |-> "up"]
    /\ gen = [c \in Conns |-> 0]
    /\ wbuf = [c \in Conns |-> <<>>]
    /\ werr = [c \in Conns |-> FALSE]
    /\ tx = [c \in Conns |-> <<>>]
    /\ rx = [c \in Conns |-> <<>>]
    /\ owed = [c \in Conns |-> 0]
    /\ lines = [c \in Conns |-> <<>>]
    /\ fresh = [c \in Conns |-> FALSE]
    /\ everOpened = [c \in Conns |-> FALSE]

\* what a typed helper hands back: a value and an error, or a panic
NoOut == [crash |-> FALSE, val |-> 0, err |-> NoErr]

\* newI2cBase: no operation yet, busInitialized false; calls lists the firmware
\* calls the object has made, ops counts its operations
NoFrame == [obj |-> "none", op |-> "none", pc |-> "none", inSend |-> FALSE, addr |-> 0,
            data |-> <<>>, k |-> 0, n |-> 0, buf |-> <<>>, found |-> <<>>, err |-> NoErr,
            calls |-> <<>>, c0 |-> 0, ops |-> 0, busInitialized |-> FALSE]

ThreadInit(t) ==
    [pc |-> IF t = User THEN "ready" ELSE "idle",
     conn |-> "p1", ns |-> <<>>, id |-> 0, args |-> <<>>, toprint |-> <<>>, i |-> 0,
     v |-> <<>>, err |-> NoErr, g |-> 0, timer |-> 0,
     sent |-> <<>>, pfl |-> 0, first |-> FALSE, tx0 |-> 0,
     n |-> 0, op |-> "none", pre |-> "nil", never |-> TRUE, touched |-> FALSE,
     helper |-> "none", out |-> NoOut, fr |-> NoFrame,
     due |-> 0, inrx |-> FALSE, stolen |-> FALSE]

CodecIdle == [pc |-> "off", in |-> <<>>, flat |-> <<>>, nel |-> 0, reflat |-> <<>>,
              i |-> 0, val |-> GoNil, err |-> NoErr, pre |-> <<>>, post |-> <<>>, count |-> <<>>]

(* ----------------------------- transport ------------------------------ *)
Usable(c) == port[c] = "open" /\ dev[c] = "up"

WriteNoGuard(c, b) ==
    IF werr[c] THEN [err |-> TransportErr, wbuf |-> wbuf[c]]
    ELSE [err |-> NoErr, wbuf |-> wbuf[c] \o b]

\* FirmwareConnection.Write
Write(c, b) ==
    IF port[c] = "nil" THEN [err |-> portClosed, wbuf |-> wbuf[c]]
    ELSE IF werr[c] THEN [err |-> TransportErr, wbuf |-> wbuf[c]]
    ELSE [err |-> NoErr, wbuf |-> wbuf[c] \o b]

\* FirmwareConnection.Flush
Flush(c) ==
    IF port[c] = "nil"
    THEN [err |-> portClosed, wbuf |-> wbuf[c], tx |-> tx[c], werr |-> werr[c], out |-> <<>>]
    ELSE IF werr[c]
    THEN [err |-> TransportErr, wbuf |-> wbuf[c], tx |-> tx[c], werr |-> TRUE, out |-> <<>>]
    ELSE IF wbuf[c] = <<>>
    THEN [err |-> NoErr, wbuf |-> wbuf[c], tx |-> tx[c], werr |-> FALSE, out |-> <<>>]
    ELSE IF Usable(c)
    THEN [err |-> NoErr, wbuf |-> <<>>, tx |-> tx[c] \o wbuf[c], werr |-> FALSE, out |-> wbuf[c]]
    ELSE [err |-> TransportErr, wbuf |-> wbuf[c], tx |-> tx[c], werr |-> TRUE, out |-> <<>>]

\* s.port.Flush(): the unread input is discarded
PortFlush(c) ==
    IF Usable(c) THEN [err |-> NoErr, rx |-> <<>>] ELSE [err |-> TransportErr, rx |-> rx[c]]

\* FirmwareConnection.FlushPort
FlushPort(c) ==
    IF port[c] = "nil" THEN [err |-> portClosed, rx |-> rx[c]] ELSE PortFlush(c)

\* FirmwareConnection.Close: s.port keeps the closed handle
Close(c) ==
    IF port[c] = "nil" THEN [err |-> NoErr, port |-> "nil", touched |-> FALSE]
    ELSE IF port[c] = "open" THEN [err |-> NoErr, port |-> "closed", touched |-> TRUE]
    ELSE [err |-> TransportErr, port |-> "closed", touched |-> TRUE]

writeNoTerminator(data, c) ==
    IF ~Encodable(data) THEN [err |-> UnsupportedErr(data), wbuf |-> wbuf[c]]
    ELSE Write(c, Encode(data))

\* write: the type switch, then conn.Write of the text and "\000"
write(data, c) ==
    IF ~Encodable(data) THEN [err |-> UnsupportedErr(data), wbuf |-> wbuf[c]]
    ELSE Write(c, Encode(data) \o <<NUL>>)


(* ------------------------------- inputs ------------------------------- *)
\* argument lists handed to call: texts; a facade-shaped list with a null;
\* a byte, which has no encoding
ArgLists ==
    { <<GoString(TxtDw), GoString(Txt13), GoString(Txt1)>>,
      <<GoString(TxtR), GoList(<<GoInt(13), GoNil, GoBool(TRUE)>>)>>,
      <<GoString(TxtDw), GoByte(7)>> }

\* what the firmware may answer: "ok\n", and in SpecConn "1\r\n" too
ReplyOk == [text |-> TxtOk, wire |-> TxtOk \o <<NL>>]
Reply1 == [text |-> Txt1, wire |-> Txt1 \o <<CR, NL>>]
Reply0 == [text |-> Txt0, wire |-> Txt0 \o <<NL>>]

Event(t, op, err, b) == [t |-> t, op |-> op, ok |-> (err = NoErr), b |-> b]

(* ------------------------------- call --------------------------------- *)
CanLockPerConn(t) == mutex = 0 \/ th[mutex].conn # th[t].conn

\* mutex.Lock() returns: the one lock is free, whatever connection the call is on
CanLock(t) == MutexFree

\* mutex.Lock() at the head of call; the invocations are numbered in the order
\* in which they take the lock
Lock(t) ==
    /\ th[t].pc = "idle"
    /\ \A u \in Calls : u < t => th[u].pc # "idle"
    /\ CanLock(t)
    /\ \E a \in ArgLists :
          th' = [th EXCEPT ![t] = [@ EXCEPT !.pc = "ns", !.ns = TxtA, !.id = 0, !.args = a,
                                            !.first = fresh[th[t].conn],
                                            !.tx0 = Len(tx[th[t].conn])]]
    /\ mutex' = t
    /\ fresh' = [fresh EXCEPT ![th[t].conn] = FALSE]
    /\ UNCHANGED <<port, dev, gen, wbuf, werr, tx, rx, owed, lines, everOpened, scans, log, cx>>

GoOn(err, okpc) == okpc

\* if err != nil { return }
NextPc(err, okpc) == IF err = NoErr THEN okpc ELSE "ret"

\* one write(data, conn) of call, going on to okpc or returning its error
CallWrite(t, data, okpc, rec) ==
    LET c == th[t].conn
        r == write(data, c)
    IN  /\ wbuf' = [wbuf EXCEPT ![c] = r.wbuf]
        /\ th' = [th EXCEPT ![t] = [rec EXCEPT !.pc = NextPc(r.err, okpc),
                                               !.err = r.err]]
        /\ log' = Append(log, Event(t, "write", r.err,
                                    SubSeq(r.wbuf, Len(wbuf[c]) + 1, Len(r.wbuf))))
        /\ UNCHANGED <<port, dev, gen, werr, tx, rx, owed, lines, fresh, everOpened, mutex, scans, cx>>

\* err = write(namespace, conn)
WriteNs(t) ==
    /\ th[t].pc = "ns"
    /\ CallWrite(t, GoString(th[t].ns), "id", th[t])

\* err = write(id, conn)
WriteId(t) ==
    /\ th[t].pc = "id"
    /\ CallWrite(t, GoInt(th[t].id), "count", th[t])

\* the flattening loop, then err = write(nel-1, conn)
WriteCount(t) ==
    /\ th[t].pc = "count"
    /\ CallWrite(t, CountField(th[t].args), "args",
                 [th[t] EXCEPT !.toprint = Flatten(th[t].args).toprint, !.i = 1])

\* err = write(elprint, conn) for the next element of toprint
WriteArg(t) ==
    /\ th[t].pc = "args"
    /\ th[t].i <= Len(th[t].toprint)
    /\ CallWrite(t, th[t].toprint[th[t].i], "args", [th[t] EXCEPT !.i = @ + 1])

\* err = conn.Flush()
CallFlush(t) ==
    LET c == th[t].conn
        r == Flush(c)
    IN  /\ th[t].pc = "args"
        /\ th[t].i > Len(th[t].toprint)
        /\ wbuf' = [wbuf EXCEPT ![c] = r.wbuf]
        /\ tx' = [tx EXCEPT ![c] = r.tx]
        /\ werr' = [werr EXCEPT ![c] = r.werr]
        /\ owed' = [owed EXCEPT ![c] = IF r.out # <<>> THEN @ + 1 ELSE @]
        /\ th' = [th EXCEPT ![t] = [@ EXCEPT !.pc = NextPc(r.err, "read"),
                                             !.err = r.err, !.sent = r.out,
                                             !.due = IF r.out # <<>> THEN owed[c] + 1 ELSE 0]]
        /\ log' = Append(log, Event(t, "Flush", r.err, r.out))
        /\ UNCHANGED <<port, dev, gen, rx, lines, fresh, everOpened, mutex, scans, cx>>

(* ------------------------------ ReadLine ------------------------------ *)
AfterReadRetry(t) == IF t = User THEN "ready" ELSE "read"

\* where a thread goes when its ReadLine returns
AfterRead(t) == IF t = User THEN "ready" ELSE "ret"

\* ReadLine up to the select: PortClosed, or a scanner and its goroutine
ReadLineBegin(t, rec) ==
    LET c == th[t].conn
    IN  /\ IF port[c] = "nil"
           THEN /\ th' = [th EXCEPT ![t] = [rec EXCEPT !.pc = AfterRead(t), !.err = portClosed,
                                                       !.v = <<>>, !.pfl = 0]]
                /\ log' = Append(log, Event(t, "ReadLine", portClosed, <<>>))
                /\ scans' = scans
           ELSE /\ th' = [th EXCEPT ![t] = [rec EXCEPT !.pc = "wait", !.g = Len(scans) + 1,
                                                       !.timer = 0, !.v = <<>>, !.pfl = 0]]
                /\ scans' = Append(scans, [conn |-> c, gen |-> gen[c], st |-> "scanning",
                                           buf |-> <<>>, tok |-> <<>>, err |-> NoErr])
                /\ log' = log
        /\ UNCHANGED <<connVars, mutex, cx>>

\* returnValue: b, err := conn.ReadLine()
CallReadLine(t) ==
    /\ th[t].pc = "read"
    /\ ReadLineBegin(t, th[t])

FiredAtOnce(t) == th[t].timer >= 0

\* <-time.After(s.ReadTimeout) is ready
Fired(t) == th[t].timer >= ReadTimeout

\* case <-time.After(s.ReadTimeout): the Timeout error, then s.port.Flush()
Timeout(t) ==
    LET c == th[t].conn
    IN  /\ th[t].pc = "wait"
        /\ Fired(t)
        /\ rx' = [rx EXCEPT ![c] = PortFlush(c).rx]
        /\ th' = [th EXCEPT ![t] = [@ EXCEPT !.pc = AfterRead(t), !.err = TimeoutErr(c),
                                             !.v = <<>>, !.pfl = @ + 1,
                                             !.due = 0, !.inrx = FALSE]]
        /\ log' = Append(log, Event(t, "ReadLine", TimeoutErr(c), <<>>))
        /\ UNCHANGED <<port, dev, gen, wbuf, werr, tx, owed, lines, fresh, everOpened, mutex, scans, cx>>

\* the s.port.Flush() calls ReadLine makes once the scan ended with e
FlushesAfter(e) == IF e # NoErr THEN 1 ELSE 0

\* case err = <-errChan: the scan's error wrapped and the port flushed, or the line
RecvScan(t) ==
    LET c == th[t].conn
        g == th[t].g
        e == IF scans[g].err # NoErr THEN ScanErr(c) ELSE NoErr
        k == FlushesAfter(e)
    IN  /\ th[t].pc = "wait"
        /\ scans[g].st = "sending"
        /\ scans' = [scans EXCEPT ![g].st = "done"]
        /\ rx' = [rx EXCEPT ![c] = IF k > 0 THEN PortFlush(c).rx ELSE @]
        /\ th' = [th EXCEPT ![t] = [@ EXCEPT !.pc = AfterRead(t), !.err = e,
                                             !.v = IF e = NoErr THEN scans[g].tok ELSE <<>>,
                                             !.pfl = @ + k, !.timer = 0,
                                             !.due = 0, !.inrx = FALSE]]
        /\ log' = Append(log, Event(t, "ReadLine", e, IF e = NoErr THEN scans[g].tok ELSE <<>>))
        /\ UNCHANGED <<port, dev, gen, wbuf, werr, tx, owed, lines, fresh, everOpened, mutex, cx>>

UnlockKeepsLock(t) ==
    /\ th[t].pc = "ret"
    /\ th' = [th EXCEPT ![t].pc = "done"]
    /\ UNCHANGED <<connVars, mutex, scans, log, cx>>

\* defer mutex.Unlock()
Unlock(t) ==
    /\ th[t].pc = "ret"
    /\ th' = [th EXCEPT ![t].pc = "done"]
    /\ mutex' = 0
    /\ UNCHANGED <<connVars, scans, log, cx>>


(* ------------------------ the scanning goroutine ---------------------- *)
HasNL(b) == \E p \in 1 .. Len(b) : b[p] = NL

\* bufio.ScanLines: the bytes before the first newline, without a trailing carriage return
Token(b) ==
    LET p == CHOOSE q \in 1 .. Len(b) : b[q] = NL /\ \A r \in 1 .. (q - 1) : b[r] # NL
        raw == SubSeq(b, 1, p - 1)
    IN  IF raw # <<>> /\ raw[Len(raw)] = CR THEN SubSeq(raw, 1, Len(raw) - 1) ELSE raw

\* the port a goroutine reads from is the one in use, and it works
Readable(g) == scans[g].gen = gen[scans[g].conn] /\ Usable(scans[g].conn)

\* scanner.Scan() reads what the port holds; a newline ends the scan
ScanRead(g) ==
    LET c == scans[g].conn
        b == scans[g].buf \o rx[c]
    IN  /\ scans[g].st = "scanning"
        /\ Readable(g)
        /\ rx[c] # <<>>
        /\ rx' = [rx EXCEPT ![c] = <<>>]
        /\ scans' = [scans EXCEPT ![g] = IF HasNL(b)
                                         THEN [@ EXCEPT !.st = "sending", !.buf = b, !.tok = Token(b)]
                                         ELSE [@ EXCEPT !.buf = b]]
        /\ th' = [t \in Threads |->
                    IF th[t].conn = c /\ th[t].inrx
                    THEN [th[t] EXCEPT !.inrx = FALSE, !.stolen = (th[t].g # g)]
                    ELSE th[t]]
        /\ UNCHANGED <<port, dev, gen, wbuf, werr, tx, owed, lines, fresh, everOpened, mutex, log, cx>>

\* scanner.Scan() on a closed or failed port ends with the device's error
ScanFail(g) ==
    /\ scans[g].st = "scanning"
    /\ ~Readable(g)
    /\ scans' = [scans EXCEPT ![g] = [@ EXCEPT !.st = "sending", !.err = TransportErr]]
    /\ UNCHANGED <<connVars, mutex, th, log, cx>>

(* ---------------------------- environment ----------------------------- *)
\* a second passes
Tick ==
    /\ \E t \in Threads : th[t].pc = "wait" /\ th[t].timer < ReadTimeout
    /\ th' = [t \in Threads |->
                IF th[t].pc = "wait" /\ th[t].timer < ReadTimeout
                THEN [th[t] EXCEPT !.timer = @ + 1] ELSE th[t]]
    /\ UNCHANGED <<connVars, mutex, scans, log, cx>>

\* the thread can still get a reply: its ReadLine has not begun, or its timer has not fired
InTime(t) == th[t].pc = "read" \/ (th[t].pc = "wait" /\ ~Fired(t))

\* the firmware answers the oldest request it owes an answer with one line
FirmwareReply(c, answers) ==
    /\ owed[c] > 0
    /\ Usable(c)
    /\ \E r \in answers :
          /\ rx' = [rx EXCEPT ![c] = @ \o r.wire]
          /\ lines' = [lines EXCEPT ![c] = Append(@, r.text)]
    /\ owed' = [owed EXCEPT ![c] = @ - 1]
    /\ th' = [t \in Threads |->
                IF th[t].conn = c /\ th[t].due > 0
                THEN IF th[t].due = 1
                     THEN [th[t] EXCEPT !.due = 0, !.inrx = InTime(t)]
                     ELSE [th[t] EXCEPT !.due = @ - 1]
                ELSE th[t]]
    /\ UNCHANGED <<port, dev, gen, wbuf, werr, tx, fresh, everOpened, mutex, scans, log, cx>>

\* the device fails (unplugged)
DeviceFail(c) ==
    /\ Usable(c)
    /\ dev' = [dev EXCEPT ![c] = "down"]
    /\ UNCHANGED <<port, gen, wbuf, werr, tx, rx, owed, lines, fresh, everOpened, mutex, th, scans, log, cx>>

(* ------------------------- the connection's user ---------------------- *)
Quiet == MutexFree /\ \A t \in Threads : th[t].pc \in {"idle", "done", "ready"}

UserRec(op, err) ==
    [th[User] EXCEPT !.op = op, !.err = err, !.n = @ + 1, !.pre = port[th[User].conn],
                     !.never = ~everOpened[th[User].conn], !.touched = FALSE]

\* FirmwareConnection.Open: OpenPort's error and a nil port ("nodev"); or the port
\* opened and flushed ("ok"); or the port opened and the error of its Flush, the
\* device having failed meanwhile ("noflush")
Open(max, outcomes) ==
    LET c == th[User].conn
    IN  /\ th[User].pc = "ready"
        /\ th[User].n < max
        /\ Quiet
        /\ port[c] # "open"
        /\ \E res \in outcomes :
              IF res = "nodev"
              THEN /\ port' = [port EXCEPT ![c] = "nil"]
                   /\ th' = [th EXCEPT ![User] = UserRec("Open", TransportErr)]
                   /\ UNCHANGED <<dev, gen, wbuf, werr, rx, owed, fresh, everOpened>>
              ELSE /\ port' = [port EXCEPT ![c] = "open"]
                   /\ dev' = [dev EXCEPT ![c] = IF res = "ok" THEN "up" ELSE "down"]
                   /\ gen' = [gen EXCEPT ![c] = @ + 1]
                   /\ wbuf' = [wbuf EXCEPT ![c] = <<>>]
                   /\ werr' = [werr EXCEPT ![c] = FALSE]
                   /\ rx' = [rx EXCEPT ![c] = <<>>]
                   /\ owed' = [owed EXCEPT ![c] = 0]
                   /\ fresh' = [fresh EXCEPT ![c] = (res = "ok")]
                   /\ everOpened' = [everOpened EXCEPT ![c] = TRUE]
                   /\ th' = [th EXCEPT ![User] =
                                UserRec("Open", IF res = "ok" THEN NoErr ELSE TransportErr)]
        /\ UNCHANGED <<tx, lines, mutex, scans, log, cx>>

\* the user calls Close
UserClose(max) ==
    LET c == th[User].conn
        r == Close(c)
    IN  /\ th[User].pc = "ready"
        /\ th[User].n < max
        /\ port' = [port EXCEPT ![c] = r.port]
        /\ fresh' = [fresh EXCEPT ![c] = FALSE]
        /\ th' = [th EXCEPT ![User] = [UserRec("Close", r.err) EXCEPT !.touched = r.touched]]
        /\ UNCHANGED <<dev, gen, wbuf, werr, tx, rx, owed, lines, everOpened, mutex, scans, log, cx>>

\* the user calls Write
UserWrite(max) ==
    LET c == th[User].conn
    IN  /\ th[User].pc = "ready"
        /\ th[User].n < max
        /\ \E b \in {TxtA \o <<NUL>>, Txt13} :
              LET r == Write(c, b)
              IN  /\ wbuf' = [wbuf EXCEPT ![c] = r.wbuf]
                  /\ th' = [th EXCEPT ![User] = UserRec("Write", r.err)]
                  /\ log' = Append(log, Event(User, "Write", r.err, b))
        /\ UNCHANGED <<port, dev, gen, werr, tx, rx, owed, lines, fresh, everOpened, mutex, scans, cx>>

\* the user calls Flush
UserFlush(max) ==
    LET c == th[User].conn
        r == Flush(c)
    IN  /\ th[User].pc = "ready"
        /\ th[User].n < max
        /\ wbuf' = [wbuf EXCEPT ![c] = r.wbuf]
        /\ tx' = [tx EXCEPT ![c] = r.tx]
        /\ werr' = [werr EXCEPT ![c] = r.werr]
        /\ owed' = [owed EXCEPT ![c] = IF r.out # <<>> THEN @ + 1 ELSE @]
        /\ th' = [th EXCEPT ![User] = UserRec("Flush", r.err)]
        /\ log' = Append(log, Event(User, "Flush", r.err, r.out))
        /\ UNCHANGED <<port, dev, gen, rx, lines, fresh, everOpened, mutex, scans, cx>>

\* the user calls FlushPort
UserFlushPort(max) ==
    LET c == th[User].conn
        r == FlushPort(c)
    IN  /\ th[User].pc = "ready"
        /\ th[User].n < max
        /\ rx' = [rx EXCEPT ![c] = r.rx]
        /\ th' = [th EXCEPT ![User] = UserRec("FlushPort", r.err)]
        /\ log' = Append(log, Event(User, "FlushPort", r.err, <<>>))
        /\ UNCHANGED <<port, dev, gen, wbuf, werr, tx, owed, lines, fresh, everOpened, mutex, scans, cx>>

\* the user calls ReadLine
UserReadLine(max) ==
    /\ th[User].pc = "ready"
    /\ th[User].n < max
    /\ ReadLineBegin(User, UserRec("ReadLine", NoErr))

(* --------------------------- specifications --------------------------- *)
Init ==
    /\ ConnInit
    /\ mutex = 0
    /\ th = [t \in Threads |-> ThreadInit(t)]
    /\ scans = <<>>
    /\ log = <<>>
    /\ cx = CodecIdle

Next ==
    \/ \E t \in Calls : Lock(t)
    \/ \E t \in Calls : WriteNs(t)
    \/ \E t \in Calls : WriteId(t)
    \/ \E t \in Calls : WriteCount(t)
    \/ \E t \in Calls : WriteArg(t)
    \/ \E t \in Calls : CallFlush(t)
    \/ \E t \in Calls : CallReadLine(t)
    \/ \E t \in Calls : RecvScan(t)
    \/ \E t \in Calls : Timeout(t)
    \/ \E t \in Calls : Unlock(t)
    \/ \E g \in 1 .. Len(scans) : ScanRead(g)
    \/ \E g \in 1 .. Len(scans) : ScanFail(g)
    \/ Tick
    \/ \E c \in Conns : FirmwareReply(c, {ReplyOk})
    \/ Open(MaxLife, {"ok", "nodev", "noflush"})
    \/ UserClose(MaxLife)

Spec == Init /\ [][Next]_vars

\* the steps of one invocation of call, from mutex.Lock() to the deferred Unlock
CallStep(t) ==
    \/ Lock(t)
    \/ WriteNs(t)
    \/ WriteId(t)
    \/ WriteCount(t)
    \/ WriteArg(t)
    \/ CallFlush(t)
    \/ CallReadLine(t)
    \/ RecvScan(t)
    \/ Timeout(t)
    \/ Unlock(t)

\* the scheduler runs every goroutine that can take a step, sync.Mutex hands the
\* lock to a waiter, device writes and flushes return, and time passes
Fairness == (\A t \in Calls : WF_vars(CallStep(t))) /\ WF_vars(Tick)

\* the calls, the goroutines, the firmware and the clock; the owner's Opens succeed
NextLive ==
    \/ \E t \in Calls : CallStep(t)
    \/ \E g \in 1 .. Len(scans) : ScanRead(g)
    \/ \E g \in 1 .. Len(scans) : ScanFail(g)
    \/ Tick
    \/ \E c \in Conns : FirmwareReply(c, {ReplyOk})
    \/ Open(MaxLife, {"ok"})
    \/ UserClose(MaxLife)

SpecLive == Init /\ [][NextLive]_vars /\ Fairness

NextConn ==
    \/ Open(MaxOps, {"ok", "nodev", "noflush"})
    \/ UserClose(MaxOps)
    \/ UserWrite(MaxOps)
    \/ UserFlush(MaxOps)
    \/ UserFlushPort(MaxOps)
    \/ UserReadLine(MaxOps)
    \/ RecvScan(User)
    \/ Timeout(User)
    \/ \E g \in 1 .. Len(scans) : ScanRead(g)
    \/ \E g \in 1 .. Len(scans) : ScanFail(g)
    \/ Tick
    \/ \E c \in Conns : FirmwareReply(c, {ReplyOk, Reply1})
    \/ \E c \in Conns : DeviceFail(c)

SpecConn == Init /\ [][NextConn]_vars

\* the connection of each invocation when two connections are in use
ConnOf(t) == IF t % 2 = 1 THEN "p1" ELSE "p2"

\* two connections, each made by NewFirmwareConnection and opened
InitTwo ==
    /\ port = [c \in Conns |-> "open"]
    /\ dev = [c \in Conns |-> "up"]
    /\ gen = [c \in Conns |-> 1]
    /\ wbuf = [c \in Conns |-> <<>>]
    /\ werr = [c \in Conns |-> FALSE]
    /\ tx = [c \in Conns |-> <<>>]
    /\ rx = [c \in Conns |-> <<>>]
    /\ owed = [c \in Conns |-> 0]
    /\ lines = [c \in Conns |-> <<>>]
    /\ fresh = [c \in Conns |-> TRUE]
    /\ everOpened = [c \in Conns |-> TRUE]
    /\ mutex = 0
    /\ th = [t \in Threads |-> [ThreadInit(t) EXCEPT !.conn = ConnOf(t)]]
    /\ scans = <<>>
    /\ log = <<>>
    /\ cx = CodecIdle

\* calls on the two connections, their goroutines, the two devices, the clock
NextTwo ==
    \/ \E t \in Calls : CallStep(t)
    \/ \E g \in 1 .. Len(scans) : ScanRead(g)
    \/ \E g \in 1 .. Len(scans) : ScanFail(g)
    \/ Tick
    \/ \E c \in Conns : FirmwareReply(c, {ReplyOk})
    \/ \E c \in Conns : DeviceFail(c)

SpecTwo == InitTwo /\ [][NextTwo]_vars


(* ------------------------- the typed call helpers --------------------- *)
AllDigits(d) == d # <<>> /\ \A i \in 1 .. Len(d) : d[i] \in 48 .. 57

RECURSIVE ParseUint(_)
ParseUint(d) ==
    IF d = <<>> THEN 0 ELSE 10 * ParseUint(SubSeq(d, 1, Len(d) - 1)) + (d[Len(d)] - 48)

\* strconv.Atoi: an optional sign and decimal digits, or a syntax error
Atoi(s) ==
    LET signed == s # <<>> /\ s[1] \in {43, 45}
        d == IF signed THEN Tail(s) ELSE s
    IN  IF AllDigits(d)
        THEN [v |-> IF signed /\ s[1] = 45 THEN 0 - ParseUint(d) ELSE ParseUint(d), err |-> NoErr]
        ELSE [v |-> 0, err |-> SyntaxErr]

\* strconv.ParseFloat(s, 64) on the texts the firmware of the model sends, which
\* hold no fraction and no exponent
ParseFloat(s) == Atoi(s)

\* prependName: append(args, 0), copy(args[1:], args), args[0] = name
prependName(args, name) ==
    LET grown == Append(args, GoInt(0))
        moved == [i \in 1 .. Len(grown) |-> IF i = 1 THEN grown[1] ELSE grown[i - 1]]
    IN  [moved EXCEPT ![1] = GoString(name)]

\* ArduinoMethodCall: what it hands to call
ArduinoMethodCall(f, methodName, args) ==
    [ns |-> f.Namespace, id |-> f.Id, args |-> prependName(args, methodName)]

\* NewArduinoApi and NewWire: the FirmwareClass of each facade
ArduinoApi == [Namespace |-> TxtA, Id |-> 0]
wire == [Namespace |-> TxtWire, Id |-> 0]

\* a method of FirmwareClass: the helper it goes through, and the call it makes;
\* each passes its variadic args as one argument of ArduinoMethodCall
Method(f, helper, methodName, args) ==
    [helper |-> helper, call |-> ArduinoMethodCall(f, methodName, <<GoList(args)>>)]

\* CallAndReturnByte: return s[0], err; s[0] of an empty string panics
CallAndReturnByte(s, err) ==
    IF Len(s) = 0 THEN [crash |-> TRUE, val |-> 0, err |-> NoErr]
    ELSE [crash |-> FALSE, val |-> s[1], err |-> err]

\* CallAndReturnInt
CallAndReturnInt(s, err) ==
    IF err # NoErr THEN [crash |-> FALSE, val |-> 0 - 1, err |-> err]
    ELSE [crash |-> FALSE, val |-> Atoi(s).v, err |-> Atoi(s).err]

\* CallAndReturnFloat
CallAndReturnFloat(s, err) ==
    IF err # NoErr THEN [crash |-> FALSE, val |-> 0 - 1, err |-> err]
    ELSE [crash |-> FALSE, val |-> ParseFloat(s).v, err |-> ParseFloat(s).err]

\* CallAndReturnNothing, and FirmwareClass.call, whose text the callers drop
CallAndReturnNothing(s, err) == [crash |-> FALSE, val |-> 0, err |-> err]

\* what the helper of a method makes of the result of ArduinoMethodCall
Helper(helper, s, err) ==
    CASE helper = "CallAndReturnByte" -> CallAndReturnByte(s, err)
      [] helper = "CallAndReturnInt" -> CallAndReturnInt(s, err)
      [] helper = "CallAndReturnFloat" -> CallAndReturnFloat(s, err)
      [] OTHER -> CallAndReturnNothing(s, err)

(* ----------------------------- ArduinoApi ----------------------------- *)
DigitalWrite(pin, val) == Method(ArduinoApi, "CallAndReturnNothing", TxtDw, <<GoString(pin), GoInt(val)>>)
DigitalRead(pin) == Method(ArduinoApi, "CallAndReturnInt", TxtR, <<GoString(pin)>>)
AnalogWrite(pin, val) == Method(ArduinoApi, "CallAndReturnNothing", TxtAw, <<GoString(pin)>>)
AnalogRead(pin) == Method(ArduinoApi, "CallAndReturnInt", TxtA, <<GoString(pin)>>)
PinMode(pin, mode) == Method(ArduinoApi, "CallAndReturnNothing", TxtPm, <<GoString(pin), GoInt(mode)>>)
Millis == Method(ArduinoApi, "CallAndReturnInt", TxtM, <<>>)
PulseIn(pin, val) == Method(ArduinoApi, "CallAndReturnInt", TxtPi, <<GoString(pin), GoInt(val)>>)
ShiftOut(dataPin, clockPin, bitOrder, val) ==
    Method(ArduinoApi, "CallAndReturnInt", TxtS,
           <<GoString(dataPin), GoString(clockPin), GoInt(bitOrder), GoByte(val)>>)

PinHigh == 1
PinOutput == 1
MsbFirst == 1

(* -------------------------------- wire -------------------------------- *)
\* I2CAddress.Value: the int, or nil for a nil address (0 stands for nil)
Value(address) == IF address = 0 THEN GoNil ELSE GoInt(address)

WireBegin(address) == Method(wire, "CallAndReturnNothing", TxtBegin, <<Value(address)>>)
RequestFrom(address, quantity, stop) ==
    Method(wire, "CallAndReturnInt", TxtRequestFrom, <<Value(address), GoInt(quantity), GoBool(stop)>>)
BeginTransmission(address) == Method(wire, "call", TxtBeginTransmission, <<Value(address)>>)
EndTransmission(stop) == Method(wire, "CallAndReturnInt", TxtEndTransmission, <<GoBool(stop)>>)
\* the call wire.Write makes for the byte v
WireWrite(v) == Method(wire, "CallAndReturnNothing", TxtWrite, <<GoByte(v)>>)
Available == Method(wire, "CallAndReturnInt", TxtAvailable, <<>>)
\* the call wire.Read makes for each byte
WireRead == Method(wire, "CallAndReturnByte", TxtRead, <<>>)

(* ------------------------- calls through a facade --------------------- *)
\* the methods a client calls: each ArduinoApi method, the Wire methods, and
\* CallAndReturnFloat, which is exported
FacadeCalls ==
    { DigitalWrite(Txt13, PinHigh), DigitalRead(Txt13), AnalogWrite(Txt13, 1), AnalogRead(Txt13),
      PinMode(Txt13, PinOutput), Millis, PulseIn(Txt13, PinHigh),
      ShiftOut(Txt13, Txt1, MsbFirst, 7),
      WireBegin(0), RequestFrom(8, 1, TRUE), BeginTransmission(8), EndTransmission(TRUE),
      WireWrite(7), Available, WireRead,
      Method(ArduinoApi, "CallAndReturnFloat", TxtA, <<GoString(Txt13)>>) }

\* a thread enters call for the method m: mutex.Lock()
Enter(t, rec, m) ==
    /\ th[t].pc = "idle"
    /\ CanLock(t)
    /\ th' = [th EXCEPT ![t] = [rec EXCEPT !.pc = "ns", !.ns = m.call.ns, !.id = m.call.id,
                                           !.args = m.call.args, !.helper = m.helper,
                                           !.due = 0, !.inrx = FALSE, !.stolen = FALSE,
                                           !.first = fresh[th[t].conn],
                                           !.tx0 = Len(tx[th[t].conn])]]
    /\ mutex' = t
    /\ fresh' = [fresh EXCEPT ![th[t].conn] = FALSE]
    /\ UNCHANGED <<port, dev, gen, wbuf, werr, tx, rx, owed, lines, everOpened, scans, log, cx>>

\* the thread of the client of a facade
Client == 1

\* a client calls a facade method
Invoke(t) == \E m \in FacadeCalls : Enter(t, th[t], m)

\* call has returned (v, err): the helper returns to the client
HelperReturn(t) ==
    /\ th[t].pc = "done"
    /\ th' = [th EXCEPT ![t] = [@ EXCEPT !.pc = "back",
                                         !.out = Helper(th[t].helper, th[t].v, th[t].err)]]
    /\ UNCHANGED <<connVars, mutex, scans, log, cx>>

\* the body of call after mutex.Lock()
CallBody(t) ==
    \/ WriteNs(t)
    \/ WriteId(t)
    \/ WriteCount(t)
    \/ WriteArg(t)
    \/ CallFlush(t)
    \/ CallReadLine(t)
    \/ RecvScan(t)
    \/ Timeout(t)
    \/ Unlock(t)

NextFacade ==
    \/ Invoke(Client)
    \/ CallBody(Client)
    \/ HelperReturn(Client)
    \/ \E g \in 1 .. Len(scans) : ScanRead(g)
    \/ \E g \in 1 .. Len(scans) : ScanFail(g)
    \/ Tick
    \/ \E c \in Conns : FirmwareReply(c, {ReplyOk, Reply1})
    \/ \E c \in Conns : DeviceFail(c)

SpecFacade == InitTwo /\ [][NextFacade]_vars

(* -------------------------------- I2C --------------------------------- *)
\* the Address of the object: nil (0) for NewI2cMaster, the slave's own address
Address(obj) == IF obj = "slave" THEN 9 ELSE 0

\* the operations of I2CMaster and of I2CSlave
I2COps == {"Request", "Send", "Scan", "Receive", "Write"}
ObjOf(op) == IF op \in {"Receive", "Write"} THEN "slave" ELSE "master"

\* the firmware call an operation is about to make, by its place in the operation
WirePcs == {"begin", "requestFrom", "beginTransmission", "wire.Write", "endTransmission",
            "available", "wire.Read"}

Pending(fr) ==
    CASE fr.pc = "begin" -> WireBegin(Address(fr.obj))
      [] fr.pc = "requestFrom" -> RequestFrom(fr.addr, fr.n, TRUE)
      [] fr.pc = "beginTransmission" -> BeginTransmission(fr.addr)
      [] fr.pc = "wire.Write" -> WireWrite(fr.data[fr.k + 1])
      [] fr.pc = "endTransmission" -> EndTransmission(TRUE)
      [] fr.pc = "available" -> Available
      [] OTHER -> WireRead

\* i2cbase.begin: wire.Begin unless busInitialized, which nothing sets; then on to next
BeginPc(fr, next) == IF fr.busInitialized THEN next ELSE "begin"

\* I2CMaster.Send up to its first firmware call
SendStart(fr, address, data) ==
    [fr EXCEPT !.inSend = TRUE, !.addr = address, !.data = data, !.k = 0,
               !.pc = BeginPc(fr, "beginTransmission")]

\* the loop of I2CMaster.Scan: Send to the next address, or return the addresses
ScanLoop(fr) ==
    IF fr.addr <= MaxAddr
    THEN SendStart(fr, fr.addr, <<>>)
    ELSE [fr EXCEPT !.pc = "ret", !.err = NoErr, !.inSend = FALSE]

\* Scan after its Send returned err: no response, a failure, or an address found
ScanAfterSend(fr, err) ==
    IF err # NoErr
    THEN IF err.k = "i2cCommunicationError"
         THEN ScanLoop([fr EXCEPT !.addr = @ + 1])
         ELSE [fr EXCEPT !.pc = "ret", !.err = err, !.found = <<>>, !.inSend = FALSE]
    ELSE ScanLoop([fr EXCEPT !.found = Append(@, fr.addr), !.addr = @ + 1])

\* the operation, or the Send inside Scan, returns err
Return(fr, err) ==
    IF fr.op = "Scan" /\ fr.inSend THEN ScanAfterSend(fr, err)
    ELSE [fr EXCEPT !.pc = "ret", !.err = err, !.inSend = FALSE]

\* a panic ends the process
Panic(fr) == [fr EXCEPT !.pc = "panic"]

\* the loop of wire.Read over buf; Request and Receive return what it returned
ReadLoop(fr) ==
    IF fr.k < fr.n THEN [fr EXCEPT !.pc = "wire.Read"] ELSE Return(fr, NoErr)

\* buf := make([]byte, n), which panics for n < 0, then wire.Read(buf)
MakeBuf(fr, n) ==
    IF n < 0 THEN Panic(fr) ELSE ReadLoop([fr EXCEPT !.n = n, !.k = 0, !.buf = <<>>])

\* the loop of wire.Write over the bytes; Send goes on to EndTransmission
WriteLoop(fr) ==
    IF fr.k < Len(fr.data) THEN [fr EXCEPT !.pc = "wire.Write"]
    ELSE IF fr.op = "Write" THEN Return(fr, NoErr)
    ELSE [fr EXCEPT !.pc = "endTransmission"]

\* after begin returned nil
AfterBegin(fr) ==
    CASE fr.op = "Request" -> [fr EXCEPT !.pc = "requestFrom"]
      [] fr.op = "Send" -> [fr EXCEPT !.pc = "beginTransmission"]
      [] fr.op = "Scan" -> IF fr.inSend THEN [fr EXCEPT !.pc = "beginTransmission"]
                           ELSE ScanLoop([fr EXCEPT !.addr = 1])
      [] fr.op = "Receive" -> [fr EXCEPT !.pc = "available"]
      [] OTHER -> WriteLoop([fr EXCEPT !.k = 0])

\* an operation from the firmware call at fr.pc, which gave out, to its next
\* firmware call or to its return
After(fr, out) ==
    CASE fr.pc = "begin" ->
            IF out.err # NoErr THEN Return(fr, out.err) ELSE AfterBegin(fr)
      [] fr.pc = "requestFrom" -> MakeBuf(fr, out.val)
      [] fr.pc = "wire.Read" ->
            IF out.crash THEN Panic(fr)
            ELSE IF out.err # NoErr THEN Return(fr, out.err)
            ELSE ReadLoop([fr EXCEPT !.buf = Append(@, out.val), !.k = @ + 1])
      [] fr.pc = "beginTransmission" ->
            IF out.err # NoErr THEN Return(fr, NoErr) ELSE WriteLoop([fr EXCEPT !.k = 0])
      [] fr.pc = "wire.Write" ->
            IF out.err # NoErr THEN Return(fr, out.err) ELSE WriteLoop([fr EXCEPT !.k = @ + 1])
      [] fr.pc = "endTransmission" ->
            IF out.err # NoErr THEN Return(fr, out.err)
            ELSE IF out.val # 0 THEN Return(fr, i2cCommunicationError(out.val))
            ELSE Return(fr, NoErr)
      [] OTHER ->
            IF out.err # NoErr THEN Return(fr, out.err) ELSE MakeBuf(fr, out.val)

\* Request, Send, Scan, Receive or Write up to its first firmware call
StartOp(fr, op, data) ==
    LET f == [fr EXCEPT !.obj = ObjOf(op), !.op = op, !.ops = @ + 1, !.c0 = Len(fr.calls),
                        !.inSend = FALSE, !.err = NoErr, !.found = <<>>, !.buf = <<>>,
                        !.addr = 8, !.n = 1, !.k = 0, !.data = data]
    IN  CASE op = "Send" -> SendStart(f, 8, data)
          [] op = "Scan" -> IF f.busInitialized THEN ScanLoop([f EXCEPT !.addr = 1])
                            ELSE [f EXCEPT !.pc = "begin"]
          [] op = "Write" -> IF f.busInitialized THEN WriteLoop(f) ELSE [f EXCEPT !.pc = "begin"]
          [] op = "Request" -> [f EXCEPT !.pc = BeginPc(f, "requestFrom")]
          [] OTHER -> [f EXCEPT !.pc = BeginPc(f, "available")]

\* the client calls Request(8, 1), Send(8, data), Scan(), Receive() or Write(data) on
\* its I2C object
I2CStart(t) ==
    /\ th[t].pc = "idle"
    /\ th[t].fr.pc \in {"none", "ret"}
    /\ th[t].fr.ops < MaxI2C
    /\ \E op \in I2COps, data \in {<<>>, <<7>>} :
          /\ th[t].fr.obj \in {"none", ObjOf(op)}
          /\ op \in {"Request", "Scan", "Receive"} => data = <<>>
          /\ th' = [th EXCEPT ![t].fr = StartOp(th[t].fr, op, data)]
    /\ UNCHANGED <<connVars, mutex, scans, log, cx>>

\* the operation makes its next firmware call
I2CInvoke(t) ==
    /\ th[t].fr.pc \in WirePcs
    /\ Enter(t, th[t], Pending(th[t].fr))

\* the firmware call has returned: its helper, then the operation goes on
I2CResume(t) ==
    LET out == Helper(th[t].helper, th[t].v, th[t].err)
        fr == [th[t].fr EXCEPT !.calls = Append(@, [name |-> th[t].fr.pc,
                                                     ok |-> (th[t].err = NoErr),
                                                     val |-> out.val])]
    IN  /\ th[t].pc = "done"
        /\ th[t].fr.pc \in WirePcs
        /\ th' = [th EXCEPT ![t] = [@ EXCEPT !.pc = "idle", !.out = out, !.fr = After(fr, out)]]
        /\ UNCHANGED <<connVars, mutex, scans, log, cx>>

NextI2C ==
    \/ I2CStart(Client)
    \/ I2CInvoke(Client)
    \/ CallBody(Client)
    \/ I2CResume(Client)
    \/ \E g \in 1 .. Len(scans) : ScanRead(g)
    \/ Tick
    \/ FirmwareReply(th[Client].conn, {Reply0, Reply1})

SpecI2C == InitTwo /\ [][NextI2C]_vars

(* ------------------------------ the codec ----------------------------- *)
\* what an argument may be: scalars of every kind, a null, lists with nulls, a list in a list
CodecElems ==
    { GoString(TxtDw), GoInt(13), GoInt(0 - 7), GoInt(1024), GoBool(TRUE), GoBool(FALSE),
      GoByte(7), GoNil,
      GoList(<<>>),
      GoList(<<GoInt(0), GoNil, GoString(<<>>)>>),
      GoList(<<GoList(<<GoInt(1), GoNil, GoInt(2)>>), GoNil>>) }

CodecInputs == UNION { [1 .. n -> CodecElems] : n \in 0 .. MaxArgs }

\* an opened connection and a drawn argument list
InitCodec ==
    /\ port = [c \in Conns |-> IF c = "p1" THEN "open" ELSE "nil"]
    /\ dev = [c \in Conns |-> "up"]
    /\ gen = [c \in Conns |-> IF c = "p1" THEN 1 ELSE 0]
    /\ wbuf = [c \in Conns |-> <<>>]
    /\ werr = [c \in Conns |-> FALSE]
    /\ tx = [c \in Conns |-> <<>>]
    /\ rx = [c \in Conns |-> <<>>]
    /\ owed = [c \in Conns |-> 0]
    /\ lines = [c \in Conns |-> <<>>]
    /\ fresh = [c \in Conns |-> c = "p1"]
    /\ everOpened = [c \in Conns |-> c = "p1"]
    /\ mutex = 0
    /\ th = [t \in Threads |-> ThreadInit(t)]
    /\ scans = <<>>
    /\ log = <<>>
    /\ \E a \in CodecInputs : cx = [CodecIdle EXCEPT !.pc = "in", !.in = a]

\* the flattening loop of call on the drawn list
CodecFlatten ==
    /\ cx.pc = "in"
    /\ cx' = [cx EXCEPT !.pc = "flat", !.flat = Flatten(cx.in).toprint, !.nel = Flatten(cx.in).nel]
    /\ UNCHANGED <<connVars, mutex, th, scans, log>>

\* the flattening loop on its own result
CodecReflatten ==
    /\ cx.pc = "flat"
    /\ cx' = [cx EXCEPT !.pc = "count", !.reflat = Flatten(cx.flat).toprint]
    /\ UNCHANGED <<connVars, mutex, th, scans, log>>

\* err = write(nel-1, conn)
CodecCount ==
    LET r == write(CountField(cx.in), "p1")
    IN  /\ cx.pc = "count"
        /\ wbuf' = [wbuf EXCEPT !["p1"] = r.wbuf]
        /\ cx' = [cx EXCEPT !.pc = "args", !.i = 1,
                            !.count = SubSeq(r.wbuf, Len(wbuf["p1"]) + 1, Len(r.wbuf))]
        /\ UNCHANGED <<port, dev, gen, werr, tx, rx, owed, lines, fresh, everOpened,
                       mutex, th, scans, log>>

\* write(data, conn) for the next drawn argument, as it is
CodecWrite ==
    LET data == cx.in[cx.i]
        r == write(data, "p1")
    IN  /\ cx.pc = "args"
        /\ cx.i <= Len(cx.in)
        /\ wbuf' = [wbuf EXCEPT !["p1"] = r.wbuf]
        /\ cx' = [cx EXCEPT !.i = @ + 1, !.val = data, !.err = r.err,
                            !.pre = wbuf["p1"], !.post = r.wbuf,
                            !.pc = IF cx.i = Len(cx.in) THEN "done" ELSE "args"]
        /\ UNCHANGED <<port, dev, gen, werr, tx, rx, owed, lines, fresh, everOpened,
                       mutex, th, scans, log>>

NextCodec ==
    \/ CodecFlatten
    \/ CodecReflatten
    \/ CodecCount
    \/ CodecWrite

SpecCodec == InitCodec /\ [][NextCodec]_vars


(* ------------------------- reading the wire --------------------------- *)
\* these say what a record must look like without using the codec above
IsDigits(d) == d # <<>> /\ \A i \in 1 .. Len(d) : d[i] \in 48 .. 57

RECURSIVE DecValue(_)
DecValue(d) ==
    IF d = <<>> THEN 0 ELSE 10 * DecValue(SubSeq(d, 1, Len(d) - 1)) + (d[Len(d)] - 48)

Canonical(d) == IsDigits(d) /\ (Len(d) > 1 => d[1] # 48)

\* d is the decimal text of n
IsDecimalOf(d, n) ==
    IF n < 0
    THEN d # <<>> /\ d[1] = 45 /\ Canonical(Tail(d)) /\ DecValue(Tail(d)) = 0 - n
    ELSE Canonical(d) /\ DecValue(d) = n

\* d is the text the protocol has for the scalar x
IsTextOf(d, x) ==
    CASE x.t = "string" -> d = x.v
      [] x.t = "int" -> IsDecimalOf(d, x.v)
      [] x.t = "bool" -> d = IF x.v THEN <<84, 114, 117, 101>> ELSE <<70, 97, 108, 115, 101>>
      [] OTHER -> FALSE

\* the fields of a byte sequence, each ended by a NUL; bytes after the last NUL are a field of their own
RECURSIVE Fields(_)
Fields(b) ==
    IF b = <<>> THEN <<>>
    ELSE IF \E p \in 1 .. Len(b) : b[p] = 0
    THEN LET p == CHOOSE q \in 1 .. Len(b) : b[q] = 0 /\ \A r \in 1 .. (q - 1) : b[r] # 0
         IN  <<SubSeq(b, 1, p - 1)>> \o Fields(SubSeq(b, p + 1, Len(b)))
    ELSE <<b>>

Terminated(b) == b # <<>> /\ b[Len(b)] = 0

\* the scalars left of an argument: a list's non-null entries, nothing for a null, else itself
Remaining(arg) ==
    IF IsList(arg) THEN Cardinality({j \in 1 .. Len(arg.v) : ~IsNil(arg.v[j])})
    ELSE IF IsNil(arg) THEN 0 ELSE 1

RECURSIVE RemainingAll(_)
RemainingAll(args) == IF args = <<>> THEN 0 ELSE Remaining(Head(args)) + RemainingAll(Tail(args))

IsScalar(x) == ~IsList(x) /\ ~IsNil(x)

\* no list-valued argument holds a list
DepthOne(args) ==
    \A i \in 1 .. Len(args) :
        IsList(args[i]) => \A j \in 1 .. Len(args[i].v) : ~IsList(args[i].v[j])

(* ------------------------------ C8 ------------------------------------ *)
\* C8: the count field written for an argument list is a NUL-terminated decimal of
\* (the number of arguments left after expanding the list-valued ones in place and
\* dropping the nulls) - 1; one argument left gives 0.  A list inside a list-valued
\* argument is one argument.
C8_CountField ==
    cx.pc \in {"args", "done"} =>
        /\ Terminated(cx.count)
        /\ Len(Fields(cx.count)) = 1
        /\ IsDecimalOf(Fields(cx.count)[1], RemainingAll(cx.in) - 1)
        /\ (RemainingAll(cx.in) = 1 => cx.count = <<48, 0>>)

\* a list with a null in it and a scalar beside it were counted: three are left, 2 is written
C8_Witness ==
    /\ cx.pc = "done"
    /\ Len(cx.in) = 2
    /\ cx.in[1] = GoList(<<GoInt(0), GoNil, GoString(<<>>)>>)
    /\ cx.in[2] = GoBool(TRUE)
    /\ cx.count = <<50, 0>>

(* ------------------------------ C9 ------------------------------------ *)
\* C9 as claimed: for every nested input, flattening the flattened list changes
\* nothing, and the flattened list holds only scalar, non-null entries.
C9_FlattenIdempotent ==
    cx.pc \in {"count", "args", "done"} =>
        /\ cx.reflat = cx.flat
        /\ \A i \in 1 .. Len(cx.flat) : IsScalar(cx.flat[i])

\* C9 amended: when no list-valued argument itself holds a list, flattening the
\* flattened list changes nothing, the flattened list holds only scalar, non-null
\* entries, as many as the arguments hold.
C9_FlattenIdempotentDepthOne ==
    (cx.pc \in {"count", "args", "done"} /\ DepthOne(cx.in)) =>
        /\ cx.reflat = cx.flat
        /\ \A i \in 1 .. Len(cx.flat) : IsScalar(cx.flat[i])
        /\ Len(cx.flat) = RemainingAll(cx.in)

\* a list holding a null between two scalars was flattened, and flattened again
C9_Witness ==
    /\ cx.pc = "count"
    /\ Len(cx.in) = 2
    /\ cx.in[1] = GoList(<<GoInt(0), GoNil, GoString(<<>>)>>)
    /\ cx.in[2] = GoNil
    /\ cx.flat = <<GoInt(0), GoString(<<>>)>>
    /\ cx.reflat = cx.flat

(* ------------------------------ C10 ----------------------------------- *)
\* C10: write appends to the write buffer, and delivers nothing to the device: the
\* raw text of a text value, the decimal digits of an integer, True or False for a
\* boolean, each followed by one NUL; for any other value it appends nothing and
\* returns an UnsupportedType error naming the value's type.
C10_Encoding ==
    (cx.pc \in {"args", "done"} /\ cx.i > 1) =>
        LET x == cx.val
            added == SubSeq(cx.post, Len(cx.pre) + 1, Len(cx.post))
        IN  /\ Len(cx.post) >= Len(cx.pre)
            /\ SubSeq(cx.post, 1, Len(cx.pre)) = cx.pre
            /\ wbuf["p1"] = cx.post
            /\ tx["p1"] = <<>>
            /\ IF x.t \in {"string", "int", "bool"}
               THEN /\ cx.err = NoErr
                    /\ Terminated(added)
                    /\ IsTextOf(SubSeq(added, 1, Len(added) - 1), x)
               ELSE /\ added = <<>>
                    /\ cx.err.k = "UnsupportedType"
                    /\ cx.err.a = x.t

\* true was written as True and NUL, and then a byte was refused
C10_Witness ==
    /\ cx.pc = "done"
    /\ Len(cx.in) = 2
    /\ cx.in[1] = GoBool(TRUE)
    /\ cx.val = GoByte(7)
    /\ cx.err = [k |-> "UnsupportedType", a |-> "uint8"]
    /\ SubSeq(cx.post, Len(cx.post) - 4, Len(cx.post)) = <<84, 114, 117, 101, 0>>


(* ------------------------- reading the log ---------------------------- *)
\* the steps of one thread, in order
Steps(t) == SelectSeq(log, LAMBDA e : e.t = t)

RECURSIVE Written(_)
\* the bytes of the write steps of S, in order
Written(S) ==
    IF S = <<>> THEN <<>>
    ELSE (IF Head(S).op = "write" THEN Head(S).b ELSE <<>>) \o Written(Tail(S))

RECURSIVE Delivered(_)
\* the bytes of the flushes of S, in order
Delivered(S) ==
    IF S = <<>> THEN <<>>
    ELSE (IF Head(S).op = "Flush" THEN Head(S).b ELSE <<>>) \o Delivered(Tail(S))

ScalarArgs(args) == \A i \in 1 .. Len(args) : args[i].t \in {"string", "int", "bool"}

\* b is the record of a call with these scalar arguments
IsRecord(b, ns, id, args) ==
    LET f == Fields(b)
    IN  /\ Terminated(b)
        /\ Len(f) = 3 + Len(args)
        /\ f[1] = ns
        /\ IsDecimalOf(f[2], id)
        /\ IsDecimalOf(f[3], Len(args) - 1)
        /\ \A i \in 1 .. Len(args) : IsTextOf(f[3 + i], args[i])

Returned(t) == th[t].pc \in {"ret", "done"}

(* ------------------------------ C1 ------------------------------------ *)
\* C1: a call on a freshly opened connection whose arguments are texts, integers
\* or booleans never fails with UnsupportedType, and when it returns no error it
\* has made one write per field (namespace, id, count - 1, each argument), then one
\* flush that delivered exactly those NUL-terminated fields to the device, then one
\* ReadLine, whose line, a line the firmware sent, is its result.
C1_CallRecord ==
    \A t \in Calls :
        (Returned(t) /\ th[t].first /\ ScalarArgs(th[t].args)) =>
            LET S == Steps(t)
                n == Len(th[t].args)
                c == th[t].conn
            IN  /\ th[t].err.k # "UnsupportedType"
                /\ th[t].err = NoErr =>
                      /\ Len(S) = n + 5
                      /\ \A i \in 1 .. (n + 3) : S[i].op = "write" /\ S[i].ok
                      /\ S[n + 4].op = "Flush" /\ S[n + 4].ok
                      /\ S[n + 4].b = Written(S)
                      /\ S[n + 4].b = th[t].sent
                      /\ S[n + 5].op = "ReadLine" /\ S[n + 5].ok
                      /\ S[n + 5].b = th[t].v
                      /\ IsRecord(th[t].sent, th[t].ns, th[t].id, th[t].args)
                      /\ SubSeq(tx[c], th[t].tx0 + 1, th[t].tx0 + Len(th[t].sent)) = th[t].sent
                      /\ \E k \in 1 .. Len(lines[c]) : lines[c][k] = th[t].v

\* namespace "A", id 0, args ["dw","13","1"], the reply ok: fields A,0,2,dw,13,1, result "ok"
C1_Witness ==
    \E t \in Calls :
        /\ th[t].pc = "done"
        /\ th[t].first
        /\ th[t].args = <<GoString(<<100, 119>>), GoString(<<49, 51>>), GoString(<<49>>)>>
        /\ th[t].err = NoErr
        /\ th[t].v = <<111, 107>>
        /\ th[t].sent = <<65, 0, 48, 0, 50, 0, 100, 119, 0, 49, 51, 0, 49, 0>>
        /\ tx[th[t].conn] = th[t].sent

(* ------------------------------ C2 ------------------------------------ *)
InCall(t) == th[t].pc \notin {"idle", "done"}

\* C2: whatever the interleaving, at most one call is between taking and releasing
\* the lock, and it is the lock's holder; the steps of each call (its writes, its
\* flush, the return of its ReadLine) are contiguous in the order of all steps (a
\* step that follows another thread's step is its thread's first), so
\* no call writes before the previous holder's ReadLine has returned; the bytes
\* delivered to the device are the flushes' bytes in that order, and the writes of
\* a call that flushed are its complete record, the end of what its flush delivered.
C2_Serialized ==
    /\ Cardinality({t \in Calls : InCall(t)}) <= 1
    /\ \A t \in Calls : InCall(t) => mutex = t
    /\ \A k \in 2 .. Len(log) :
          log[k].t # log[k - 1].t => \A i \in 1 .. (k - 1) : log[i].t # log[k].t
    /\ tx["p1"] = Delivered(log)
    /\ \A t \in Calls :
          th[t].sent # <<>> =>
              LET w == Written(Steps(t))
                  b == th[t].sent
              IN  /\ Terminated(w)
                  /\ Len(Fields(w)) = 3 + RemainingAll(th[t].args)
                  /\ Len(b) >= Len(w)
                  /\ SubSeq(b, Len(b) - Len(w) + 1, Len(b)) = w
                  /\ \E i \in 1 .. Len(log) :
                        log[i].t = t /\ log[i].op = "Flush" /\ log[i].ok /\ log[i].b = b

\* two calls have run to their end, each has delivered its record
C2_Witness ==
    /\ \A t \in {1, 2} : th[t].pc = "done" /\ th[t].sent # <<>> /\ th[t].err = NoErr
    /\ Len(Steps(1)) >= 5
    /\ Len(Steps(2)) >= 5

(* ------------------------------ C7 ------------------------------------ *)
\* C7: in a call no step follows a failed step, the flush follows the writes and
\* the ReadLine the flush; the call returns an error exactly when its last step
\* failed; a call that returns UnsupportedType has made no flush and, when it
\* returns, no byte has reached the device since it took the lock.
C7_AbortOnFailure ==
    \A t \in Calls :
        LET S == Steps(t)
            c == th[t].conn
        IN  /\ \A i \in 1 .. (Len(S) - 1) : S[i].ok
            /\ \A i \in 1 .. Len(S) :
                  /\ S[i].op = "ReadLine" => (i = Len(S) /\ i > 1 /\ S[i - 1].op = "Flush")
                  /\ S[i].op = "Flush" => (i >= Len(S) - 1 /\ \A j \in 1 .. (i - 1) : S[j].op = "write")
            /\ Returned(t) =>
                  /\ Len(S) > 0
                  /\ (th[t].err = NoErr) = (S[Len(S)].ok /\ S[Len(S)].op = "ReadLine")
                  /\ (th[t].err # NoErr) = ~S[Len(S)].ok
            /\ (Returned(t) /\ th[t].err.k = "UnsupportedType") =>
                  /\ \A i \in 1 .. Len(S) : S[i].op = "write"
                  /\ th[t].sent = <<>>
                  /\ (th[t].pc = "ret" => Len(tx[c]) = th[t].tx0)

\* a call on an open connection has written namespace, id, count and "dw", was
\* refused the byte and returns: nothing was flushed, its four fields stay buffered
C7_Witness ==
    \E t \in Calls :
        /\ th[t].pc = "ret"
        /\ th[t].err = [k |-> "UnsupportedType", a |-> "uint8"]
        /\ Len(Steps(t)) = 5
        /\ port[th[t].conn] = "open"
        /\ wbuf[th[t].conn] = <<65, 0, 48, 0, 49, 0, 100, 119, 0>>
        /\ tx[th[t].conn] = <<>>


(* ------------------------------ C3 ------------------------------------ *)
UserBack(ops) == th[User].pc = "ready" /\ th[User].op \in ops

\* C3: a ReadLine on a connection that is not nil, when it returns: if its scan
\* has seen neither a line nor a device error, it fails with Timeout; a Timeout
\* names the port, comes no sooner than ReadTimeout after the ReadLine began and
\* with exactly one flush of the port; a ReadLine that returns a line has flushed
\* nothing, and the line is what its scan read up to the newline.
C3_ReadLineTimeout ==
    LET u == th[User]
    IN  (UserBack({"ReadLine"}) /\ u.pre # "nil") =>
            /\ u.err.k \in {"nil", "Timeout", "ScanError"}
            /\ scans[u.g].st = "scanning" => u.err.k = "Timeout"
            /\ u.err.k = "Timeout" =>
                  (u.err.a = u.conn /\ u.timer >= ReadTimeout /\ u.pfl = 1 /\ u.v = <<>>)
            /\ u.err = NoErr =>
                  /\ u.pfl = 0
                  /\ scans[u.g].st = "done"
                  /\ \E k \in 1 .. Len(lines[u.conn]) : lines[u.conn][k] = u.v

\* on an open connection from which nothing came, a ReadLine timed out and flushed once
C3_Witness ==
    LET u == th[User]
    IN  /\ UserBack({"ReadLine"})
        /\ u.pre = "open"
        /\ port[u.conn] = "open"
        /\ u.err = [k |-> "Timeout", a |-> "p1"]
        /\ scans[u.g].st = "scanning"
        /\ scans[u.g].buf = <<>>
        /\ lines[u.conn] = <<>>
        /\ u.pfl = 1

C5_PortClosedAfterClose ==
    (UserBack({"Write", "Flush", "FlushPort", "ReadLine"}) /\ th[User].pre = "closed") =>
        th[User].err = portClosed

(* ------------------------------ C6 ------------------------------------ *)
\* C6 as claimed: a Close() on a connection that was never opened, or was closed
\* by an earlier Close, returns no error, does not touch the device and leaves the
\* connection as it was.
C6_CloseIdempotent ==
    (UserBack({"Close"}) /\ th[User].pre # "open") =>
        /\ th[User].err = NoErr
        /\ ~th[User].touched
        /\ port[th[User].conn] = th[User].pre

(* ------------------------------ C11 ----------------------------------- *)
\* the steps of S that are op
Count(S, op) == Cardinality({i \in 1 .. Len(S) : S[i].op = op})

\* the ReadLine of t started a scan, and the scan has seen neither a line nor an error
NoReply(t) == th[t].g > 0 /\ scans[th[t].g].st = "scanning"

\* C11: over a whole call, whatever its outcome, at most one write per field of
\* the record, at most one flush and at most one ReadLine are made; a call that
\* has flushed and whose scan saw no reply returns the empty result and the
\* Timeout error of its port, after exactly one flush and one ReadLine.
C11_NoRetry ==
    \A t \in Calls :
        LET S == Steps(t)
        IN  /\ Count(S, "Flush") <= 1
            /\ Count(S, "ReadLine") <= 1
            /\ Count(S, "write") <= 3 + RemainingAll(th[t].args)
            /\ (Returned(t) /\ Count(S, "ReadLine") = 1 /\ NoReply(t)) =>
                  /\ th[t].v = <<>>
                  /\ th[t].err = [k |-> "Timeout", a |-> th[t].conn]
                  /\ Count(S, "Flush") = 1
                  /\ S[Len(S)].op = "ReadLine"

\* Scenario B: the record A,0,2,dw,13,1 was flushed once, the firmware sent nothing,
\* the call is back with "" and Timeout
C11_Witness ==
    \E t \in Calls :
        /\ th[t].pc = "done"
        /\ th[t].args = <<GoString(<<100, 119>>), GoString(<<49, 51>>), GoString(<<49>>)>>
        /\ th[t].err = [k |-> "Timeout", a |-> "p1"]
        /\ th[t].v = <<>>
        /\ lines[th[t].conn] = <<>>
        /\ port[th[t].conn] = "open"
        /\ tx[th[t].conn] = <<65, 0, 48, 0, 50, 0, 100, 119, 0, 49, 51, 0, 49, 0>>
        /\ Count(Steps(t), "Flush") = 1
        /\ Count(Steps(t), "ReadLine") = 1

(* ------------------------------ C12 ----------------------------------- *)
\* C12: under fair scheduling there comes a moment when every invocation of call,
\* those that waited for the lock included, has returned and the lock is free,
\* whichever way each leaves (result, UnsupportedType, PortClosed, flush error,
\* scan error, Timeout) and whether or not the firmware answers.
C12_EveryCallReturns == <>(mutex = 0 /\ \A t \in Calls : th[t].pc = "done")

\* both calls are back and the lock is free: one timed out, the other met the
\* closed port at its flush
C12_Witness ==
    /\ mutex = 0
    /\ \A t \in Calls : th[t].pc = "done"
    /\ \E t \in Calls : th[t].err.k = "Timeout"
    /\ \E t \in Calls : th[t].err.k = "TransportError" /\ Count(Steps(t), "ReadLine") = 0

(* ------------------------------ C13 ----------------------------------- *)
\* C13: with calls on two distinct connections, at most one call on any connection
\* is between taking and releasing the lock, and it holds the one lock; in the
\* order of all steps on all connections the steps of two calls never interleave:
\* once a step of another call follows, the first call makes no further write,
\* flush or ReadLine, on whatever connection each of them is.
C13_ProcessWideLock ==
    /\ \A t, u \in Calls : (InCall(t) /\ InCall(u)) => t = u
    /\ \A t \in Calls : InCall(t) => mutex = t
    /\ \A t \in Calls : (mutex = t) => \A u \in Calls \ {t} : ~InCall(u)
    /\ \A i, k \in 1 .. Len(log) :
          (i < k /\ log[i].t = log[k].t) => \A j \in i .. k : log[j].t = log[i].t
    /\ \A c \in Conns :
          tx[c] = Delivered(SelectSeq(log, LAMBDA e : th[e.t].conn = c))

\* a call on p1 and a call on p2 have both run to their end, one after the other
C13_Witness ==
    /\ th[1].conn = "p1" /\ th[2].conn = "p2"
    /\ \A t \in {1, 2} : th[t].pc = "done" /\ th[t].err = NoErr
    /\ tx["p1"] # <<>> /\ tx["p2"] # <<>>
    /\ \E k \in 1 .. Len(log) :
          /\ \A i \in 1 .. (k - 1) : log[i].t = 1
          /\ \A i \in k .. Len(log) : log[i].t = 2

(* ------------------------------ C14 ----------------------------------- *)
\* C14 as claimed: when call has failed, each typed helper (CallAndReturnByte,
\* CallAndReturnInt, CallAndReturnFloat, CallAndReturnNothing) returns to its
\* caller, without a panic, and the error it returns is the error of call.
C14_HelpersPropagate ==
    \A t \in Calls :
        (th[t].pc = "back" /\ th[t].err # NoErr) =>
            /\ ~th[t].out.crash
            /\ th[t].out.err = th[t].err

(* ------------------------------ C19 ----------------------------------- *)
\* C19 as claimed: no call made through an ArduinoApi method or a Wire method
\* fails with an UnsupportedType error.
C19_FacadeArgsEncodable ==
    \A t \in Calls :
        (th[t].helper # "none" /\ th[t].pc \in {"ret", "done", "back"}) =>
            th[t].err.k # "UnsupportedType"

(* ------------------------------ C15 ----------------------------------- *)
\* the firmware calls of the operation the object is in, or was last in
OpCalls(fr) == SubSeq(fr.calls, fr.c0 + 1, Len(fr.calls))

\* C15 as claimed: when a Send or a Request has ended and one of the firmware calls
\* it made failed, it has returned, without a panic, an error that is not nil; and
\* a Send whose EndTransmission succeeded with a status other than 0 has returned
\* the i2cCommunicationError of that status.
C15_I2CErrorsPropagate ==
    LET fr == th[Client].fr
        cs == OpCalls(fr)
    IN  (fr.op \in {"Send", "Request"} /\ fr.pc \in {"ret", "panic"}) =>
            /\ (\E i \in 1 .. Len(cs) : ~cs[i].ok) => (fr.pc = "ret" /\ fr.err # NoErr)
            /\ (cs # <<>> /\ cs[Len(cs)].name = "endTransmission" /\ cs[Len(cs)].ok
                    /\ cs[Len(cs)].val # 0) =>
                  (fr.pc = "ret" /\ fr.err.k = "i2cCommunicationError")

(* ------------------------------ C16 ----------------------------------- *)
\* C16 as claimed: among the firmware calls one I2C object has made, no "begin"
\* follows a "begin" that succeeded.
C16_BeginOnce ==
    LET cs == th[Client].fr.calls
    IN  \A i, j \in 1 .. Len(cs) :
            (i < j /\ cs[i].name = "begin" /\ cs[i].ok) => cs[j].name # "begin"

(* ------------------------------ C18 ----------------------------------- *)
\* C18 as claimed: when a call takes the lock on an open, working connection the
\* write buffer is empty, and what the flush of a call delivers is that call's own
\* writes and nothing else.
C18_CleanBuffer ==
    \A t \in Calls :
        /\ (th[t].pc = "ns" /\ Usable(th[t].conn)) => wbuf[th[t].conn] = <<>>
        /\ (th[t].sent # <<>> /\ Usable(th[t].conn)) => th[t].sent = Written(Steps(t))

(* ------------------------------ C17 ----------------------------------- *)
\* C17 as claimed: when the firmware sent the reply to a call's own request while
\* the call could still wait for it (before its ReadLine began, or before
\* ReadTimeout had passed), the scan of an earlier ReadLine has not read that reply;
\* so no call has come back with a Timeout after losing its reply that way.
C17_LaterCallUnspoiled ==
    \A t \in Calls :
        (Returned(t) /\ th[t].err.k = "Timeout") => ~th[t].stolen

(* ------------------------------ C20 ----------------------------------- *)
\* C20 as claimed: a scan that has completed (a line, or a device error) and is
\* delivering its result has a ReadLine waiting to receive it: the ReadLine that
\* started it has not returned.  A scan in that state whose ReadLine has returned
\* can take no further step, for no later ReadLine receives from its channel.
C20_ScanEnds ==
    \A g \in 1 .. Len(scans) :
        scans[g].st = "sending" => \E t \in Threads : th[t].pc = "wait" /\ th[t].g = g

====
